---- MODULE Spec2Model ----
(***************************************************************************)
(* A model of the JSON decoder of takaaa220/json_parser: the lexer         *)
(* (src/src/lexer.rs, character stream -> token stream) and the recursive  *)
(* descent parser (src/src/parser.rs, token stream -> value tree).         *)
(*                                                                         *)
(* Characters are Unicode scalar values (naturals); a Rust String is the   *)
(* sequence of its characters.  A Token and a Value are records tagged by  *)
(* `kind` / `type`; an Object holds a function from keys to Values, which  *)
(* is what a BTreeMap<String, Value> is up to equality.                    *)
(***************************************************************************)
EXTENDS Integers, Sequences, FiniteSets

VARIABLES
    chars,     \* Lexer.chars: the whole input, as a sequence of characters
    pos,       \* number of characters the Peekable<Chars> has yielded so far
    tokens,    \* tokenize(): the local `tokens` vector
    lexState,  \* "none" | "run" | "string" | "ok" | "err": where tokenize() is
    utf16,     \* parse_string_token(): the local `utf16` buffer
    result,    \* parse_string_token(): the local `result` string
    ptokens,   \* Parser.tokens
    index,     \* Parser.index
    pstate,    \* "none" | "ready" | "ok" | "err": outcome of the last parse()
    value,     \* the Value the last parse() returned (NoValue when it failed)
    calls      \* number of parse() calls made on the Parser so far

vars == <<chars, pos, tokens, lexState, utf16, result,
          ptokens, index, pstate, value, calls>>

lexVars == <<chars, pos, tokens, lexState, utf16, result>>
parserVars == <<ptokens, index, pstate, value, calls>>

(***************************************************************************)
(* Bounds of the model.                                                    *)
(***************************************************************************)
MaxTextLen == 3      \* inputs over TextAlphabet have at most this many characters
MaxStrChunks == 4    \* a string input has at most this many chunks after its quote
MaxWidth == 2        \* a generated array / object has at most this many entries
MaxTokLen == 3       \* token inputs over TokAlphabet have at most this many tokens
MaxParseCalls == 2   \* parse() is called at most this often on one Parser

(***************************************************************************)
(* Characters the source names.                                            *)
(***************************************************************************)
LBraceCh == 123      \* '{'
RBraceCh == 125      \* '}'
LBracketCh == 91     \* '['
RBracketCh == 93     \* ']'
CommaCh == 44        \* ','
ColonCh == 58        \* ':'
QuoteCh == 34        \* '"'
BackslashCh == 92    \* '\\'
LowerU == 117        \* 'u'

Min(a, b) == IF a <= b THEN a ELSE b

(***************************************************************************)
(* Token (lexer.rs:2-14) and Value.                                        *)
(***************************************************************************)
StringTok(s) == [kind |-> "String", s |-> s]
NumberTok(n) == [kind |-> "Number", n |-> n]
BoolTok(b) == [kind |-> "Bool", b |-> b]
NullTok == [kind |-> "Null"]
WhiteSpace == [kind |-> "WhiteSpace"]
LeftBrace == [kind |-> "LeftBrace"]
RightBrace == [kind |-> "RightBrace"]
LeftBracket == [kind |-> "LeftBracket"]
RightBracket == [kind |-> "RightBracket"]
Comma == [kind |-> "Comma"]
Colon == [kind |-> "Colon"]

NullV == [type |-> "Null"]
BoolV(b) == [type |-> "Bool", b |-> b]
NumberV(n) == [type |-> "Number", n |-> n]
StringV(s) == [type |-> "String", s |-> s]
ArrayV(items) == [type |-> "Array", items |-> items]
ObjectV(entries) == [type |-> "Object", entries |-> entries]
NoValue == [type |-> "None"]
EmptyMap == [k \in {} |-> NoValue]

(***************************************************************************)
(* char predicates of the standard library, over all code points:          *)
(* is_whitespace is the property White_Space, is_numeric the general       *)
(* categories Nd, Nl and No, given as the ranges <<first, last>>.          *)
(***************************************************************************)
IsWhitespace(c) ==
    \/ c \in 9..13
    \/ c \in {32, 133, 160, 5760, 8232, 8233, 8239, 8287, 12288}
    \/ c \in 8192..8202

IsAsciiDigit(c) == c \in 48..57

NumericRanges == {
    <<48, 57>>, <<178, 179>>, <<185, 185>>, <<188, 190>>, <<1632, 1641>>, <<1776, 1785>>,
    <<1984, 1993>>, <<2406, 2415>>, <<2534, 2543>>, <<2548, 2553>>, <<2662, 2671>>, <<2790,
    2799>>, <<2918, 2927>>, <<2930, 2935>>, <<3046, 3058>>, <<3174, 3183>>, <<3192, 3198>>,
    <<3302, 3311>>, <<3416, 3422>>, <<3430, 3448>>, <<3558, 3567>>, <<3664, 3673>>, <<3792,
    3801>>, <<3872, 3891>>, <<4160, 4169>>, <<4240, 4249>>, <<4969, 4988>>, <<5870, 5872>>,
    <<6112, 6121>>, <<6128, 6137>>, <<6160, 6169>>, <<6470, 6479>>, <<6608, 6618>>, <<6784,
    6793>>, <<6800, 6809>>, <<6992, 7001>>, <<7088, 7097>>, <<7232, 7241>>, <<7248, 7257>>,
    <<8304, 8304>>, <<8308, 8313>>, <<8320, 8329>>, <<8528, 8578>>, <<8581, 8585>>, <<9312,
    9371>>, <<9450, 9471>>, <<10102, 10131>>, <<11517, 11517>>, <<12295, 12295>>, <<12321,
    12329>>, <<12344, 12346>>, <<12690, 12693>>, <<12832, 12841>>, <<12872, 12879>>, <<12881,
    12895>>, <<12928, 12937>>, <<12977, 12991>>, <<42528, 42537>>, <<42726, 42735>>, <<43056,
    43061>>, <<43216, 43225>>, <<43264, 43273>>, <<43472, 43481>>, <<43504, 43513>>, <<43600,
    43609>>, <<44016, 44025>>, <<65296, 65305>>, <<65799, 65843>>, <<65856, 65912>>, <<65930,
    65931>>, <<66273, 66299>>, <<66336, 66339>>, <<66369, 66369>>, <<66378, 66378>>, <<66513,
    66517>>, <<66720, 66729>>, <<67672, 67679>>, <<67705, 67711>>, <<67751, 67759>>, <<67835,
    67839>>, <<67862, 67867>>, <<68028, 68029>>, <<68032, 68047>>, <<68050, 68095>>, <<68160,
    68168>>, <<68221, 68222>>, <<68253, 68255>>, <<68331, 68335>>, <<68440, 68447>>, <<68472,
    68479>>, <<68521, 68527>>, <<68858, 68863>>, <<68912, 68921>>, <<68928, 68937>>, <<69216,
    69246>>, <<69405, 69414>>, <<69457, 69460>>, <<69573, 69579>>, <<69714, 69743>>, <<69872,
    69881>>, <<69942, 69951>>, <<70096, 70105>>, <<70113, 70132>>, <<70384, 70393>>, <<70736,
    70745>>, <<70864, 70873>>, <<71248, 71257>>, <<71360, 71369>>, <<71376, 71395>>, <<71472,
    71483>>, <<71904, 71922>>, <<72016, 72025>>, <<72688, 72697>>, <<72784, 72812>>, <<73040,
    73049>>, <<73120, 73129>>, <<73184, 73193>>, <<73552, 73561>>, <<73664, 73684>>, <<74752,
    74862>>, <<90416, 90425>>, <<92768, 92777>>, <<92864, 92873>>, <<93008, 93017>>, <<93019,
    93025>>, <<93552, 93561>>, <<93824, 93846>>, <<94196, 94198>>, <<118000, 118009>>,
    <<119488, 119507>>, <<119520, 119539>>, <<119648, 119672>>, <<120782, 120831>>, <<123200,
    123209>>, <<123632, 123641>>, <<124144, 124153>>, <<124401, 124410>>, <<125127, 125135>>,
    <<125264, 125273>>, <<126065, 126123>>, <<126125, 126127>>, <<126129, 126132>>, <<126209,
    126253>>, <<126255, 126269>>, <<127232, 127244>>, <<130032, 130041>> }

\* As in the standard library: the ASCII digits, or a table lookup above U+007F.
IsNumeric(c) ==
    \/ IsAsciiDigit(c)
    \/ c > 127 /\ \E r \in NumericRanges : r[1] <= c /\ c <= r[2]

IsAsciiHexdigit(c) == c \in 48..57 \/ c \in 65..70 \/ c \in 97..102

HexVal(c) ==
    IF c \in 48..57 THEN c - 48
    ELSE IF c \in 65..70 THEN c - 55
    ELSE c - 87

IsSign(c) == c \in {43, 45}          \* '+' '-'
IsExpMark(c) == c \in {101, 69}      \* 'e' 'E'
DotCh(c) == c = 46                   \* '.'

\* The largest j such that s[i..j] all satisfy P (i-1 when s[i] does not).
RunEnd(s, i, P(_)) ==
    CHOOSE j \in (i - 1)..Len(s) :
        /\ \A k \in i..j : P(s[k])
        /\ j = Len(s) \/ ~P(s[j + 1])

(***************************************************************************)
(* str::parse::<f64>.  A finite f64 is kept as its shortest decimal, in    *)
(* canonical form (mant not divisible by 10, or mant = exp = 0).  From     *)
(* 2^-1021 on a decimal of at most 15 significant digits (the mantissa is  *)
(* a machine integer, below 2^31) is the shortest decimal of the f64 it    *)
(* rounds to; below, where the f64 are 2^-1074 apart, the f64 and its      *)
(* shortest decimal are computed.  Decimals from 2^1024 - 2^970 on round   *)
(* to infinity, decimals up to 2^-1075 round to zero.                      *)
(***************************************************************************)
RECURSIVE Canon(_, _)
Canon(m, e) ==
    IF m = 0 THEN [mant |-> 0, exp |-> 0]
    ELSE IF m % 10 = 0 THEN Canon(m \div 10, e + 1)
    ELSE [mant |-> m, exp |-> e]

RECURSIVE NumDigits(_)
NumDigits(m) == IF m < 10 THEN 1 ELSE 1 + NumDigits(m \div 10)

\* The decimal digits of m, most significant first.
RECURSIVE Digits(_)
Digits(m) == IF m < 10 THEN <<m>> ELSE Append(Digits(m \div 10), m % 10)

\* Digit i of a, 0 outside a.
DigitAt(a, i) == IF i \in 1..Len(a) THEN a[i] ELSE 0

\* The order of the decimal fractions 0.a1 a2 ... and 0.b1 b2 ... given by their
\* digits: "lt", "eq" or "gt".
CmpDigits(a, b) ==
    LET n == IF Len(a) >= Len(b) THEN Len(a) ELSE Len(b)
        diff == {i \in 1..n : DigitAt(a, i) # DigitAt(b, i)}
        first == CHOOSE i \in diff : \A j \in diff : i <= j
    IN  IF diff = {} THEN "eq"
        ELSE IF DigitAt(a, first) < DigitAt(b, first) THEN "lt" ELSE "gt"

\* The digits of 2^1024 - 2^970 (leading digit at 10^308), half way between
\* f64::MAX and 2^1024: from here on a decimal rounds to infinity.
InfFrom == <<
    1, 7, 9, 7, 6, 9, 3, 1, 3, 4, 8, 6, 2, 3, 1, 5, 8, 0, 7, 9, 3, 7, 2, 8, 9, 7, 1, 4, 0, 5,
    3, 0, 3, 4, 1, 5, 0, 7, 9, 9, 3, 4, 1, 3, 2, 7, 1, 0, 0, 3, 7, 8, 2, 6, 9, 3, 6, 1, 7, 3,
    7, 7, 8, 9, 8, 0, 4, 4, 4, 9, 6, 8, 2, 9, 2, 7, 6, 4, 7, 5, 0, 9, 4, 6, 6, 4, 9, 0, 1, 7,
    9, 7, 7, 5, 8, 7, 2, 0, 7, 0, 9, 6, 3, 3, 0, 2, 8, 6, 4, 1, 6, 6, 9, 2, 8, 8, 7, 9, 1, 0,
    9, 4, 6, 5, 5, 5, 5, 4, 7, 8, 5, 1, 9, 4, 0, 4, 0, 2, 6, 3, 0, 6, 5, 7, 4, 8, 8, 6, 7, 1,
    5, 0, 5, 8, 2, 0, 6, 8, 1, 9, 0, 8, 9, 0, 2, 0, 0, 0, 7, 0, 8, 3, 8, 3, 6, 7, 6, 2, 7, 3,
    8, 5, 4, 8, 4, 5, 8, 1, 7, 7, 1, 1, 5, 3, 1, 7, 6, 4, 4, 7, 5, 7, 3, 0, 2, 7, 0, 0, 6, 9,
    8, 5, 5, 5, 7, 1, 3, 6, 6, 9, 5, 9, 6, 2, 2, 8, 4, 2, 9, 1, 4, 8, 1, 9, 8, 6, 0, 8, 3, 4,
    9, 3, 6, 4, 7, 5, 2, 9, 2, 7, 1, 9, 0, 7, 4, 1, 6, 8, 4, 4, 4, 3, 6, 5, 5, 1, 0, 7, 0, 4,
    3, 4, 2, 7, 1, 1, 5, 5, 9, 6, 9, 9, 5, 0, 8, 0, 9, 3, 0, 4, 2, 8, 8, 0, 1, 7, 7, 9, 0, 4,
    1, 7, 4, 4, 9, 7, 7, 9, 2 >>

\* Whether mant * 10^exp rounds to infinity.
Overflows(mant, exp) ==
    LET top == NumDigits(mant) - 1 + exp IN
    /\ mant # 0
    /\ \/ top > 308
       \/ top = 308 /\ CmpDigits(Digits(mant), InfFrom) # "lt"

\* Natural numbers beyond the machine integers, as their decimal digits, most
\* significant first; leading zeros are allowed and <<>> is 0.
Strip(a) ==
    LET nonzero == {i \in 1..Len(a) : a[i] # 0}
    IN  IF nonzero = {} THEN <<>>
        ELSE SubSeq(a, CHOOSE i \in nonzero : \A j \in nonzero : i <= j, Len(a))

LastDigit(a) == IF a = <<>> THEN 0 ELSE a[Len(a)]

\* The function f on 1..n as the sequence of its values.
AsSeq(f) == f \o <<>>

\* Columns of values, most significant first, stand for the number that is the
\* sum of col[j] * 10^(Len(col) - j).  Spill leaves in each column its last
\* digit and moves the rest one column up, into a new first column at the top.
Spill(col) ==
    AsSeq([j \in 1..(Len(col) + 1) |-> (DigitAt(col, j - 1) % 10) + (DigitAt(col, j) \div 10)])

\* Spilt until a column passes on at most a carry of 1 and the first takes it.
RECURSIVE Settle(_)
Settle(col) ==
    IF col[1] <= 8 /\ \A j \in 1..Len(col) : col[j] <= 18 THEN col
    ELSE Settle(Spill(col))

\* The digits of settled columns: column j receives a carry when a column
\* further down holds 10 or more and all columns in between hold 9.
Ripple(c) ==
    AsSeq([j \in 1..Len(c) |->
              (c[j] + (IF \E i \in (j + 1)..Len(c) :
                             c[i] >= 10 /\ \A p \in (j + 1)..(i - 1) : c[p] = 9
                       THEN 1 ELSE 0)) % 10])

Carried(col) == Ripple(Settle(Spill(col)))

BigAdd(a, b) ==
    LET n == IF Len(a) >= Len(b) THEN Len(a) ELSE Len(b)
    IN  Carried(AsSeq([j \in 1..n |->
                          DigitAt(a, j - (n - Len(a))) + DigitAt(b, j - (n - Len(b)))]))

\* a - 1, for a > 0.
BigDec(a) ==
    LET last == CHOOSE i \in 1..Len(a) : a[i] # 0 /\ \A j \in (i + 1)..Len(a) : a[j] = 0
    IN  AsSeq([i \in 1..Len(a) |->
                  IF i < last THEN a[i] ELSE IF i = last THEN a[i] - 1 ELSE 9])

\* The sum of a[j + 1 - i] * b[i] over i in lo..hi: the share of b[lo..hi] in
\* column j of the product of a and b.
RECURSIVE Column(_, _, _, _, _)
Column(a, b, j, lo, hi) ==
    IF lo > hi THEN 0
    ELSE IF lo = hi THEN DigitAt(a, j + 1 - lo) * b[lo]
    ELSE LET mid == (lo + hi) \div 2
         IN  Column(a, b, j, lo, mid) + Column(a, b, j, mid + 1, hi)

BigMul(a, b) ==
    IF a = <<>> \/ b = <<>> THEN <<>>
    ELSE Carried(AsSeq([j \in 1..(Len(a) + Len(b) - 1) |-> Column(a, b, j, 1, Len(b))]))

CmpStripped(x, y) ==
    IF Len(x) < Len(y) THEN "lt"
    ELSE IF Len(x) > Len(y) THEN "gt"
    ELSE CmpDigits(x, y)

BigCmp(a, b) == CmpStripped(Strip(a), Strip(b))

RECURSIVE DigitsVal(_)
DigitsVal(a) ==
    IF a = <<>> THEN 0 ELSE 10 * DigitsVal(SubSeq(a, 1, Len(a) - 1)) + LastDigit(a)

\* The digits of 2^1074: below 2^-1021 the f64 are the multiples k * 2^-1074,
\* k < 2^53, and y * 10^t is y * 10^t * 2^1074 of these units.
TwoPow1074 == <<
    2, 0, 2, 4, 0, 2, 2, 5, 3, 3, 0, 7, 3, 1, 0, 6, 1, 8, 3, 5, 2, 4, 9, 5, 3, 4, 6, 7, 1, 8,
    9, 1, 7, 3, 0, 7, 0, 4, 9, 5, 5, 6, 6, 4, 9, 7, 6, 4, 1, 4, 2, 1, 1, 8, 3, 5, 6, 9, 0, 1,
    3, 5, 8, 0, 2, 7, 4, 3, 0, 3, 3, 9, 5, 6, 7, 9, 9, 5, 3, 4, 6, 8, 9, 1, 9, 6, 0, 3, 8, 3,
    7, 0, 1, 4, 3, 7, 1, 2, 4, 4, 9, 5, 1, 8, 7, 0, 7, 7, 8, 6, 4, 3, 1, 6, 8, 1, 1, 9, 1, 1,
    3, 8, 9, 8, 0, 8, 7, 3, 7, 3, 8, 5, 7, 9, 3, 4, 7, 6, 8, 6, 7, 0, 1, 3, 3, 9, 9, 9, 4, 0,
    7, 3, 8, 5, 0, 9, 9, 2, 1, 5, 1, 7, 4, 2, 4, 2, 7, 6, 5, 6, 6, 3, 6, 1, 3, 6, 4, 4, 6, 6,
    9, 0, 7, 7, 4, 2, 0, 9, 3, 2, 1, 6, 3, 4, 1, 2, 3, 9, 7, 6, 7, 6, 7, 8, 4, 7, 2, 7, 4, 5,
    0, 6, 8, 5, 6, 2, 0, 0, 7, 4, 8, 3, 4, 2, 4, 6, 9, 2, 6, 9, 8, 6, 1, 8, 1, 0, 3, 3, 5, 5,
    6, 4, 9, 1, 5, 9, 5, 5, 6, 3, 4, 0, 8, 1, 0, 0, 5, 6, 5, 1, 2, 3, 5, 8, 7, 6, 9, 5, 5, 2,
    3, 3, 3, 4, 1, 4, 6, 1, 5, 2, 3, 0, 5, 0, 2, 5, 3, 2, 1, 8, 6, 3, 2, 7, 5, 0, 8, 6, 4, 6,
    0, 0, 6, 2, 6, 3, 3, 0, 7, 7, 0, 7, 7, 4, 1, 0, 9, 3, 4, 9, 4, 7, 8, 4 >>

TwoPow53 == <<9, 0, 0, 7, 1, 9, 9, 2, 5, 4, 7, 4, 0, 9, 9, 2>>

Zeros(n) == IF n <= 0 THEN <<>> ELSE [i \in 1..n |-> 0]

\* q * 10^t: the digits of the integer part and those of the fraction.
Split(q, t) ==
    [int |-> IF t >= 0 THEN q \o Zeros(t)
             ELSE IF 0 - t >= Len(q) THEN <<>> ELSE SubSeq(q, 1, Len(q) + t),
     frac |-> IF t >= 0 THEN <<>>
              ELSE IF 0 - t >= Len(q) THEN Zeros(0 - t - Len(q)) \o q
              ELSE SubSeq(q, Len(q) + t + 1, Len(q))]

\* y * 10^t in units of 2^-1074.
InUnits(y, t) == Split(BigMul(TwoPow1074, y), t)

\* The order c of the integer parts, settled by the fraction when they are equal.
Tie(c, frac) ==
    IF c # "eq" THEN c
    ELSE IF \E i \in 1..Len(frac) : frac[i] # 0 THEN "gt" ELSE "eq"

CmpSplit(v, plus, n) == Tie(BigCmp(BigAdd(v.int, plus), n), v.frac)

\* The order of y * 10^t + plus units and n units.
CmpUnits(y, t, plus, n) == CmpSplit(InUnits(y, t), plus, n)

\* int, or int + 1: up above the half, at the half to the even one.
RoundHalf(int, half) ==
    IF half = "gt" \/ (half = "eq" /\ LastDigit(int) % 2 = 1)
    THEN Strip(BigAdd(int, <<1>>))
    ELSE Strip(int)

RoundSplit(v) == RoundHalf(v.int, CmpDigits(v.frac, <<5>>))

\* The k of the f64 k * 2^-1074 nearest to mant * 10^exp, ties to even k.
RoundToUnits(mant, exp) == RoundSplit(InUnits(Digits(mant), exp))

Within(low, high, even) ==
    /\ low = "gt" \/ (even /\ low = "eq")
    /\ high = "lt" \/ (even /\ high = "eq")

\* Whether x * 10^t rounds to the f64 k * 2^-1074: it lies between (k - 1/2)
\* and (k + 1/2) units, the bounds included when k is even.
RoundsTo(x, t, k) ==
    Within(CmpUnits(BigAdd(x, x), t, <<1>>, BigAdd(k, k)),
           CmpUnits(BigAdd(x, x), t, <<>>, BigAdd(BigAdd(k, k), <<1>>)),
           LastDigit(k) % 2 = 0)

\* x - n, or 0 when x < n.
RECURSIVE Back(_, _)
Back(x, n) == IF n = 0 \/ Strip(x) = <<>> THEN x ELSE Back(BigDec(x), n - 1)

\* The f64 k * 2^-1074 (k >= 1), which the decimal m * 10^exp rounds to, as its
\* shortest decimal: at the highest position t where a multiple of 10^t
\* rounds to that f64, the multiple below or above k * 2^-1074 that does, the
\* nearer of the two when both do, the upper one at a tie.

\* The multiple of 10^t below m * 10^exp.
Below(m, exp, t) ==
    IF t - exp >= Len(m) THEN <<>> ELSE SubSeq(m, 1, Len(m) - (t - exp))

Highest(found) == CHOOSE p \in found : \A r \in found : r <= p

\* A multiple that rounds to the f64 exists if and only if the one below or
\* the one above the decimal does; 10^-324 is less than 2^-1074, so the
\* position is -324 at the lowest.
Position(m, exp, k) ==
    Highest({t \in (IF exp >= 0 - 324 THEN exp ELSE 0 - 324)..(Len(m) + exp) :
                 \/ RoundsTo(Below(m, exp, t), t, k)
                 \/ RoundsTo(BigAdd(Below(m, exp, t), <<1>>), t, k)})

\* The multiple of 10^t below k * 2^-1074, searched from from on: it is within
\* 5 of the one below the decimal.
FloorFrom(from, t, k) ==
    BigAdd(from, Digits(CHOOSE d \in 0..10 :
                            /\ CmpUnits(BigAdd(from, Digits(d)), t, <<>>, k) # "gt"
                            /\ CmpUnits(BigAdd(from, Digits(d + 1)), t, <<>>, k) = "gt"))

Pick(down, up, t, k) ==
    IF /\ RoundsTo(down, t, k)
       /\ \/ ~RoundsTo(up, t, k)
          \/ CmpUnits(BigAdd(BigAdd(down, down), <<1>>), t, <<>>, BigAdd(k, k)) = "gt"
    THEN Canon(DigitsVal(down), t)
    ELSE Canon(DigitsVal(up), t)

PickAt(down, t, k) == Pick(down, BigAdd(down, <<1>>), t, k)

ShortestAt(m, exp, t, k) == PickAt(FloorFrom(Back(Below(m, exp, t), 5), t, k), t, k)

Shortest(mant, exp, k) ==
    ShortestAt(Digits(mant), exp, Position(Digits(mant), exp, k), k)

\* The finite f64 nearest to mant * 10^exp, not zero and below infinity; k is
\* the decimal rounded to units of 2^-1074.
NearestOf(mant, exp, k) ==
    IF NumDigits(mant) - 1 + exp > 0 - 308 \/ BigCmp(k, TwoPow53) # "lt"
    THEN [mant |-> mant, exp |-> exp]
    ELSE IF k = <<>> THEN [mant |-> 0, exp |-> 0]
    ELSE Shortest(mant, exp, k)

Nearest(mant, exp) == NearestOf(mant, exp, RoundToUnits(mant, exp))

Finite(neg, n) == [class |-> "finite", neg |-> neg, mant |-> n.mant, exp |-> n.exp]

F64(neg, mant, exp) ==
    LET c == Canon(mant, exp) IN
    IF Overflows(c.mant, c.exp)
    THEN [class |-> "inf", neg |-> neg, mant |-> 0, exp |-> 0]
    ELSE IF c.mant = 0
    THEN [class |-> "finite", neg |-> neg, mant |-> 0, exp |-> 0]
    ELSE Finite(neg, Nearest(c.mant, c.exp))

\* The scan of dec2flt's grammar
\*     Number ::= [sign] ( Digit+ | Digit+ '.' Digit* | Digit* '.' Digit+ ) [Exp]
\*     Exp    ::= ('e' | 'E') [sign] Digit+
\* from character i on, in phase "int", "frac", "expSign" or "exp", with the sign
\* of the number, the digits read so far as an integer, the number of integer,
\* fraction and exponent digits read, and the exponent read so far.
NoF64 == [ok |-> FALSE, value |-> [class |-> "finite", neg |-> FALSE, mant |-> 0, exp |-> 0]]

RECURSIVE NumScan(_, _, _, _, _, _, _, _, _, _)
NumScan(s, i, phase, neg, mant, nInt, nFrac, expNeg, expAbs, nExp) ==
    IF i > Len(s)
    THEN (IF nInt + nFrac >= 1 /\ (phase \in {"int", "frac"} \/ (phase = "exp" /\ nExp >= 1))
          THEN [ok |-> TRUE,
                value |-> F64(neg, mant, (IF expNeg THEN 0 - expAbs ELSE expAbs) - nFrac)]
          ELSE NoF64)
    ELSE IF phase = "int" /\ IsAsciiDigit(s[i])
    THEN NumScan(s, i + 1, "int", neg, mant * 10 + (s[i] - 48), nInt + 1, nFrac,
                 expNeg, expAbs, nExp)
    ELSE IF phase = "int" /\ DotCh(s[i])
    THEN NumScan(s, i + 1, "frac", neg, mant, nInt, nFrac, expNeg, expAbs, nExp)
    ELSE IF phase = "frac" /\ IsAsciiDigit(s[i])
    THEN NumScan(s, i + 1, "frac", neg, mant * 10 + (s[i] - 48), nInt, nFrac + 1,
                 expNeg, expAbs, nExp)
    ELSE IF phase \in {"int", "frac"} /\ IsExpMark(s[i]) /\ nInt + nFrac >= 1
    THEN NumScan(s, i + 1, "expSign", neg, mant, nInt, nFrac, expNeg, expAbs, nExp)
    ELSE IF phase = "expSign" /\ IsSign(s[i])
    THEN NumScan(s, i + 1, "exp", neg, mant, nInt, nFrac, s[i] = 45, expAbs, nExp)
    ELSE IF phase \in {"expSign", "exp"} /\ IsAsciiDigit(s[i])
    THEN NumScan(s, i + 1, "exp", neg, mant, nInt, nFrac, expNeg,
                 expAbs * 10 + (s[i] - 48), nExp + 1)
    ELSE NoF64

ParseF64(s) ==
    IF Len(s) >= 1 /\ IsSign(s[1])
    THEN NumScan(s, 2, "int", s[1] = 45, 0, 0, 0, FALSE, 0, 0)
    ELSE NumScan(s, 1, "int", FALSE, 0, 0, 0, FALSE, 0, 0)

(***************************************************************************)
(* String::from_utf16, as char::decode_utf16 computes it.                  *)
(***************************************************************************)
IsSurrogate(u) == u \in 55296..57343
IsLowSurrogate(u) == u \in 56320..57343

RECURSIVE DecodeUtf16(_, _)
DecodeUtf16(units, acc) ==
    IF units = <<>> THEN [ok |-> TRUE, str |-> acc]
    ELSE LET u == Head(units) IN
         IF ~IsSurrogate(u) THEN DecodeUtf16(Tail(units), Append(acc, u))
         ELSE IF u >= 56320 THEN [ok |-> FALSE, str |-> acc]
         ELSE IF Len(units) < 2 \/ ~IsLowSurrogate(units[2])
              THEN [ok |-> FALSE, str |-> acc]
              ELSE DecodeUtf16(Tail(Tail(units)),
                       Append(acc, ((u % 1024) * 1024 + (units[2] % 1024)) + 65536))

FromUtf16(units) == DecodeUtf16(units, <<>>)

\* A push_utf16 that appends the decoded buffer and forgets to clear it.
PushUtf16NoClear(res, buf) ==
    IF buf = <<>> THEN [ok |-> TRUE, result |-> res, utf16 |-> buf]
    ELSE LET d == FromUtf16(buf) IN
         IF d.ok THEN [ok |-> TRUE, result |-> res \o d.str, utf16 |-> buf]
         ELSE [ok |-> FALSE, result |-> res, utf16 |-> buf]

\* push_utf16(result, utf16): the buffers after the call, and whether it was Ok.
PushUtf16(res, buf) ==
    IF buf = <<>> THEN [ok |-> TRUE, result |-> res, utf16 |-> buf]
    ELSE LET d == FromUtf16(buf) IN
         IF d.ok THEN [ok |-> TRUE, result |-> res \o d.str, utf16 |-> <<>>]
         ELSE [ok |-> FALSE, result |-> res, utf16 |-> buf]

(***************************************************************************)
(* The lexer.                                                              *)
(***************************************************************************)
IsNumberStart(c) == IsNumeric(c) \/ c \in {43, 45, 46}            \* lexer.rs:95
IsNumberChar(c) == IsNumeric(c) \/ c \in {43, 45, 101, 69, 46}    \* lexer.rs:160
IsPassThrough(c) == c \in {QuoteCh, BackslashCh, 47, 98, 102, 110, 114, 116}

NullWord == <<110, 117, 108, 108>>
TrueWord == <<116, 114, 117, 101>>
FalseWord == <<102, 97, 108, 115, 101>>

\* The arm of next_token's match that a peeked character takes, in match order.
Dispatch(c) ==
    IF IsWhitespace(c) \/ c = 10 THEN "WhiteSpace"
    ELSE IF c = LBraceCh THEN "LeftBrace"
    ELSE IF c = RBraceCh THEN "RightBraceChar"
    ELSE IF c = LBracketCh THEN "LeftBracket"
    ELSE IF c = RBracketCh THEN "RightBracket"
    ELSE IF c = CommaCh THEN "Comma"
    ELSE IF c = ColonCh THEN "Colon"
    ELSE IF c = QuoteCh THEN "String"
    ELSE IF IsNumberStart(c) THEN "Number"
    ELSE IF c = 116 THEN "True"
    ELSE IF c = 102 THEN "False"
    ELSE IF c = 110 THEN "Null"
    ELSE "Unexpected"

\* A next_return_token that hands the token back without consuming a character.
NextReturnTokenStay(p, token) == [pos |-> p, token |-> token]

\* next_return_token: one character is consumed and the token handed back.
NextReturnToken(p, token) == [pos |-> p + 1, token |-> token]

\* The token each single-character arm of next_token passes to next_return_token.
PunctToken(c) ==
    IF c = LBraceCh THEN LeftBrace
    ELSE IF c = RBraceCh THEN LeftBrace
    ELSE IF c = LBracketCh THEN LeftBracket
    ELSE IF c = RBracketCh THEN RightBracket
    ELSE IF c = CommaCh THEN Comma
    ELSE IF c = ColonCh THEN Colon
    ELSE WhiteSpace

\* (0..n).filter_map(|_| self.chars.next()): the characters read, at most n.
TakeUpTo(s, p, n) == SubSeq(s, p + 1, Min(p + n, Len(s)))

ParseNullToken(s, p) ==
    [ok |-> TakeUpTo(s, p, 4) = NullWord, pos |-> Min(p + 4, Len(s)), token |-> NullTok]

ParseBoolToken(s, p, b) ==
    IF b
    THEN [ok |-> TakeUpTo(s, p, 4) = TrueWord, pos |-> Min(p + 4, Len(s)),
          token |-> BoolTok(TRUE)]
    ELSE [ok |-> TakeUpTo(s, p, 5) = FalseWord, pos |-> Min(p + 5, Len(s)),
          token |-> BoolTok(FALSE)]

ParseNumberToken(s, p) ==
    LET e == RunEnd(s, p + 1, IsNumberChar)
        r == ParseF64(SubSeq(s, p + 1, e))
    IN  [ok |-> r.ok, pos |-> e, token |-> NumberTok(r.value)]

\* u16::from_str_radix(hexs, 16) on a string of at most four hexadecimal digits.
RECURSIVE HexNum(_)
HexNum(h) ==
    IF h = <<>> THEN 0
    ELSE HexNum(SubSeq(h, 1, Len(h) - 1)) * 16 + HexVal(h[Len(h)])

\* The \u arm of parse_string_token, entered with p characters consumed and the
\* backslash and the u at p+1 and p+2: up to four characters are read, those that
\* are hexadecimal digits are kept, and what was kept is parsed.
UnicodeEscape(s, p) ==
    LET taken == TakeUpTo(s, p + 2, 4)
        hexs == SelectSeq(taken, IsAsciiHexdigit)
    IN  [ok |-> hexs # <<>>, pos |-> p + 2 + Len(taken), unit |-> HexNum(hexs)]

AtRun == lexState = "run" /\ pos < Len(chars)
Peek == chars[pos + 1]

\* tokenize(): the token next_token returned is kept unless it is WhiteSpace.
Push(toks, token) == IF token.kind = "WhiteSpace" THEN toks ELSE Append(toks, token)

Emit(r) ==
    /\ pos' = r.pos
    /\ tokens' = Push(tokens, r.token)
    /\ lexState' = "run"
    /\ UNCHANGED <<chars, utf16, result>>
    /\ UNCHANGED parserVars

EmitOrFail(r) ==
    /\ pos' = r.pos
    /\ IF r.ok
       THEN tokens' = Push(tokens, r.token) /\ lexState' = "run"
       ELSE tokens' = tokens /\ lexState' = "err"
    /\ UNCHANGED <<chars, utf16, result>>
    /\ UNCHANGED parserVars

LexWhiteSpace ==
    /\ AtRun /\ Dispatch(Peek) = "WhiteSpace"
    /\ Emit(NextReturnToken(pos, WhiteSpace))

LexLeftBrace ==
    /\ AtRun /\ Dispatch(Peek) = "LeftBrace"
    /\ Emit(NextReturnToken(pos, PunctToken(Peek)))

LexRightBraceChar ==
    /\ AtRun /\ Dispatch(Peek) = "RightBraceChar"
    /\ Emit(NextReturnToken(pos, PunctToken(Peek)))

LexLeftBracket ==
    /\ AtRun /\ Dispatch(Peek) = "LeftBracket"
    /\ Emit(NextReturnToken(pos, PunctToken(Peek)))

LexRightBracket ==
    /\ AtRun /\ Dispatch(Peek) = "RightBracket"
    /\ Emit(NextReturnToken(pos, PunctToken(Peek)))

LexComma ==
    /\ AtRun /\ Dispatch(Peek) = "Comma"
    /\ Emit(NextReturnToken(pos, PunctToken(Peek)))

LexColon ==
    /\ AtRun /\ Dispatch(Peek) = "Colon"
    /\ Emit(NextReturnToken(pos, PunctToken(Peek)))

\* The opening quote is consumed and parse_string_token starts on fresh buffers.
LexStringOpen ==
    /\ AtRun /\ Dispatch(Peek) = "String"
    /\ pos' = pos + 1
    /\ lexState' = "string"
    /\ utf16' = <<>>
    /\ result' = <<>>
    /\ UNCHANGED <<chars, tokens>>
    /\ UNCHANGED parserVars

LexNumber ==
    /\ AtRun /\ Dispatch(Peek) = "Number"
    /\ EmitOrFail(ParseNumberToken(chars, pos))

LexTrue ==
    /\ AtRun /\ Dispatch(Peek) = "True"
    /\ EmitOrFail(ParseBoolToken(chars, pos, TRUE))

LexFalse ==
    /\ AtRun /\ Dispatch(Peek) = "False"
    /\ EmitOrFail(ParseBoolToken(chars, pos, FALSE))

LexNull ==
    /\ AtRun /\ Dispatch(Peek) = "Null"
    /\ EmitOrFail(ParseNullToken(chars, pos))

\* The peeked character is left unconsumed and tokenize() returns the error.
LexUnexpected ==
    /\ AtRun /\ Dispatch(Peek) = "Unexpected"
    /\ lexState' = "err"
    /\ UNCHANGED <<chars, pos, tokens, utf16, result>>
    /\ UNCHANGED parserVars

\* peek() is None: next_token returns Ok(None) and tokenize() Ok(tokens).
LexEnd ==
    /\ lexState = "run" /\ pos = Len(chars)
    /\ lexState' = "ok"
    /\ UNCHANGED <<chars, pos, tokens, utf16, result>>
    /\ UNCHANGED parserVars

(***************************************************************************)
(* parse_string_token: one action per iteration of its loop, by the arm    *)
(* the iteration takes.                                                    *)
(***************************************************************************)
InString == lexState = "string"
StrFail(p, res, buf) ==
    /\ pos' = p
    /\ lexState' = "err"
    /\ result' = res
    /\ utf16' = buf
    /\ UNCHANGED <<chars, tokens>>
    /\ UNCHANGED parserVars

StrGoOn(p, res, buf) ==
    /\ pos' = p
    /\ lexState' = "string"
    /\ result' = res
    /\ utf16' = buf
    /\ UNCHANGED <<chars, tokens>>
    /\ UNCHANGED parserVars

\* chars.next() is None: the string was never closed.
StrEnd ==
    /\ InString /\ pos = Len(chars)
    /\ StrFail(pos, result, utf16)

\* A backslash is the last character of the input.
StrEscapeEnd ==
    /\ InString /\ pos + 1 = Len(chars) /\ chars[pos + 1] = BackslashCh
    /\ StrFail(pos + 1, result, utf16)

\* A pass-through escape: the buffer is flushed, then backslash and c2 appended.
StrEscapePass ==
    /\ InString /\ pos + 1 < Len(chars) /\ chars[pos + 1] = BackslashCh
    /\ IsPassThrough(chars[pos + 2])
    /\ LET f == PushUtf16(result, utf16) IN
       IF f.ok
       THEN StrGoOn(pos + 2, f.result \o <<BackslashCh, chars[pos + 2]>>, f.utf16)
       ELSE StrFail(pos + 2, f.result, f.utf16)

\* \u: a code unit is read and pushed on the buffer.
StrEscapeUnicode ==
    /\ InString /\ pos + 1 < Len(chars) /\ chars[pos + 1] = BackslashCh
    /\ chars[pos + 2] = LowerU
    /\ LET e == UnicodeEscape(chars, pos) IN
       IF e.ok
       THEN StrGoOn(e.pos, result, Append(utf16, e.unit))
       ELSE StrFail(e.pos, result, utf16)

\* Any other escaped character.
StrEscapeBad ==
    /\ InString /\ pos + 1 < Len(chars) /\ chars[pos + 1] = BackslashCh
    /\ ~IsPassThrough(chars[pos + 2]) /\ chars[pos + 2] # LowerU
    /\ StrFail(pos + 2, result, utf16)

\* The closing quote: the buffer is flushed and the String token returned.
StrClose ==
    /\ InString /\ pos < Len(chars) /\ chars[pos + 1] = QuoteCh
    /\ LET f == PushUtf16(result, utf16) IN
       IF f.ok
       THEN /\ pos' = pos + 1
            /\ tokens' = Push(tokens, StringTok(f.result))
            /\ lexState' = "run"
            /\ result' = f.result
            /\ utf16' = f.utf16
            /\ UNCHANGED chars
            /\ UNCHANGED parserVars
       ELSE StrFail(pos + 1, f.result, f.utf16)

\* Any other character: the buffer is flushed, then the character appended.
StrChar ==
    /\ InString /\ pos < Len(chars)
    /\ chars[pos + 1] # QuoteCh /\ chars[pos + 1] # BackslashCh
    /\ LET f == PushUtf16(result, utf16) IN
       IF f.ok
       THEN StrGoOn(pos + 1, Append(f.result, chars[pos + 1]), f.utf16)
       ELSE StrFail(pos + 1, f.result, f.utf16)

LexNext ==
    \/ LexWhiteSpace \/ LexLeftBrace \/ LexRightBraceChar \/ LexLeftBracket
    \/ LexRightBracket \/ LexComma \/ LexColon \/ LexStringOpen \/ LexNumber
    \/ LexTrue \/ LexFalse \/ LexNull \/ LexUnexpected \/ LexEnd
    \/ StrEnd \/ StrEscapeEnd \/ StrEscapePass \/ StrEscapeUnicode
    \/ StrEscapeBad \/ StrClose \/ StrChar

(***************************************************************************)
(* The parser.  A parse function is an operator of the token vector and    *)
(* the cursor it is entered with; it yields whether it returned Ok, the    *)
(* Value, and the cursor it leaves (next() advances the cursor even when   *)
(* there is no token to hand back).                                        *)
(***************************************************************************)
Ok(v, i) == [ok |-> TRUE, value |-> v, index |-> i]
Err(i) == [ok |-> FALSE, value |-> NoValue, index |-> i]

\* peek(): whether a token is there to read at cursor i.
HasToken(toks, i) == i < Len(toks)

IsScalarTok(tok) == tok.kind \in {"String", "Number", "Bool", "Null"}

\* parse(): the four leaf arms, which consume the token and wrap its payload.
ParseScalar(tok, i) ==
    IF tok.kind = "String" THEN Ok(StringV(tok.s), i + 1)
    ELSE IF tok.kind = "Number" THEN Ok(NumberV(tok.n), i + 1)
    ELSE IF tok.kind = "Bool" THEN Ok(BoolV(tok.b), i + 1)
    ELSE Ok(NullV, i + 1)

\* An empty-array arm that returns without discarding the `]`.
EmptyArrayKeepBracket(i) == Ok(ArrayV(<<>>), i)

\* parse_array, `]` right after `[` (cursor i is past the `[`): it is discarded.
EmptyArray(i) == Ok(ArrayV(<<>>), i + 1)

\* parse_object, `}` right after `{` (cursor i is past the `{`): it is discarded.
EmptyObject(i) == Ok(ObjectV(EmptyMap), i + 1)

\* A push that puts the new element in front.
ArrayPushFront(array, v) == <<v>> \o array

\* array.push(value)
ArrayPush(array, v) == Append(array, v)

\* An insert that keeps the value a key already has.
ObjectInsertKeepFirst(object, key, v) ==
    [k \in DOMAIN object \cup {key} |-> IF k \in DOMAIN object THEN object[k] ELSE v]

\* object.insert(key, value) on the BTreeMap
ObjectInsert(object, key, v) ==
    [k \in DOMAIN object \cup {key} |-> IF k = key THEN v ELSE object[k]]

\* A pattern that looks at the key alone and takes any token after it.
IsKeyAnyPair(token1, token2) == token1.kind = "String"

\* The pattern (Token::String(key), Token::Colon).
IsKeyColonPair(token1, token2) == token1.kind = "String" /\ token2.kind = "Colon"

RECURSIVE Parse(_, _)
RECURSIVE ParseArray(_, _)
RECURSIVE ArrayLoop(_, _, _)
RECURSIVE ParseObject(_, _)
RECURSIVE ObjectLoop(_, _, _)

Parse(toks, i) ==
    IF ~HasToken(toks, i) THEN Err(i)
    ELSE LET token == toks[i + 1] IN
         IF token.kind = "LeftBrace" THEN ParseObject(toks, i)
         ELSE IF token.kind = "LeftBracket" THEN ParseArray(toks, i)
         ELSE IF IsScalarTok(token) THEN ParseScalar(token, i)
         ELSE Err(i)

ParseArray(toks, i) ==
    IF ~HasToken(toks, i) THEN Err(i)
    ELSE IF toks[i + 1].kind # "LeftBracket" THEN Err(i)
    ELSE IF ~HasToken(toks, i + 1) THEN Err(i + 1)
    ELSE IF toks[i + 2].kind = "RightBracket" THEN EmptyArray(i + 1)
    ELSE ArrayLoop(toks, i + 1, <<>>)

\* One iteration of parse_array's loop, entered at cursor i with `array` built.
ArrayLoop(toks, i, array) ==
    LET r == Parse(toks, i) IN
    IF ~r.ok THEN r
    ELSE LET pushed == ArrayPush(array, r.value) IN
         IF ~HasToken(toks, r.index) THEN Err(r.index + 1)
         ELSE LET token == toks[r.index + 1] IN
              IF token.kind = "RightBracket" THEN Ok(ArrayV(pushed), r.index + 1)
              ELSE IF token.kind = "Comma" THEN ArrayLoop(toks, r.index + 1, pushed)
              ELSE Err(r.index + 1)

ParseObject(toks, i) ==
    IF ~HasToken(toks, i) THEN Err(i)
    ELSE IF toks[i + 1].kind # "LeftBrace" THEN Err(i)
    ELSE IF ~HasToken(toks, i + 1) THEN Err(i + 1)
    ELSE IF toks[i + 2].kind = "RightBrace" THEN EmptyObject(i + 1)
    ELSE ObjectLoop(toks, i + 1, EmptyMap)

\* One iteration of parse_object's loop, entered at cursor i with `object` built.
ObjectLoop(toks, i, object) ==
    IF ~HasToken(toks, i) THEN Err(i + 1)
    ELSE IF ~HasToken(toks, i + 1) THEN Err(i + 2)
    ELSE IF ~IsKeyColonPair(toks[i + 1], toks[i + 2]) THEN Err(i + 2)
    ELSE LET r == Parse(toks, i + 2) IN
         IF ~r.ok THEN r
         ELSE LET inserted == ObjectInsert(object, toks[i + 1].s, r.value) IN
              IF ~HasToken(toks, r.index) THEN Err(r.index + 1)
              ELSE LET token3 == toks[r.index + 1] IN
                   IF token3.kind = "RightBrace" THEN Ok(ObjectV(inserted), r.index + 1)
                   ELSE IF token3.kind = "Comma" THEN ObjectLoop(toks, r.index + 1, inserted)
                   ELSE Err(r.index + 1)

\* Parser::new(tokens) on the vector tokenize() returned.
ParserNew ==
    /\ lexState = "ok" /\ pstate = "none"
    /\ ptokens' = tokens
    /\ index' = 0
    /\ pstate' = "ready"
    /\ UNCHANGED <<value, calls>>
    /\ UNCHANGED lexVars

\* One call of the public parse() on the Parser, whatever its cursor is.
ParseCall ==
    /\ pstate # "none" /\ calls < MaxParseCalls
    /\ LET r == Parse(ptokens, index) IN
       /\ index' = r.index
       /\ value' = r.value
       /\ pstate' = IF r.ok THEN "ok" ELSE "err"
    /\ calls' = calls + 1
    /\ UNCHANGED ptokens
    /\ UNCHANGED lexVars

(***************************************************************************)
(* The inputs.  Token vectors: every vector of at most MaxTokLen tokens,   *)
(* the token vectors of generated documents (arrays and objects of at most *)
(* MaxWidth entries, objects with repeated keys included, one level of     *)
(* nesting, the documents of the repository's tests), and every flat       *)
(* document with one token replaced, dropped or appended, or cut short.    *)
(* Texts: the generated documents written out, every text of at most       *)
(* MaxTextLen characters, and strings of at most MaxStrChunks chunks.      *)
(***************************************************************************)
StrA == <<97>>                    \* "a"
StrB == <<98>>                    \* "b"
One == F64(FALSE, 1, 0)

TokAlphabet ==
    {StringTok(StrA), StringTok(StrB), NullTok, LeftBrace, RightBrace,
     LeftBracket, RightBracket, Comma, Colon}
TokLeaves == {NullTok, StringTok(StrA)}
Keys == {StrA, StrB}

SeqsUpTo(S, n) == UNION {[1..k -> S] : k \in 0..n}

RECURSIVE Flatten(_)
Flatten(parts) == IF parts = <<>> THEN <<>> ELSE Head(parts) \o Flatten(Tail(parts))

RECURSIVE JoinComma(_)
JoinComma(parts) ==
    IF parts = <<>> THEN <<>>
    ELSE IF Len(parts) = 1 THEN parts[1]
    ELSE parts[1] \o <<Comma>> \o JoinComma(Tail(parts))

ArrToks(elems) == <<LeftBracket>> \o JoinComma(elems) \o <<RightBracket>>
MemberToks(m) == <<StringTok(m[1]), Colon>> \o m[2]
ObjToks(members) ==
    <<LeftBrace>> \o JoinComma([j \in 1..Len(members) |-> MemberToks(members[j])])
        \o <<RightBrace>>

LeafDocs == {<<t>> : t \in TokLeaves}
ScalarDocs ==
    {<<NullTok>>, <<BoolTok(TRUE)>>, <<BoolTok(FALSE)>>, <<NumberTok(One)>>,
     <<StringTok(StrA)>>}
FlatDocs ==
    {ArrToks(es) : es \in SeqsUpTo(LeafDocs, MaxWidth)}
        \cup {ObjToks(ms) : ms \in SeqsUpTo(Keys \X LeafDocs, MaxWidth)}
NestedDocs ==
    UNION {{ArrToks(<<d>>),
            ArrToks(<<<<NullTok>>, d>>),
            ObjToks(<<<<StrA, d>>>>),
            ObjToks(<<<<StrA, d>>, <<StrA, <<NullTok>>>>>>)} : d \in FlatDocs}
\* parser.rs:206, 218, 238, 253, 264, with one-letter keys and strings.
ExampleDocs ==
    {ObjToks(<<<<StrB, <<StringTok(StrA)>>>>, <<StrA, <<NullTok>>>>>>),
     ObjToks(<<<<StrA, ObjToks(<<<<StrA, <<BoolTok(FALSE)>>>>>>)>>>>),
     ArrToks(<<<<NumberTok(One)>>, <<NullTok>>,
               ObjToks(<<<<StrA, <<BoolTok(TRUE)>>>>>>)>>),
     ObjToks(<<<<StrA, ArrToks(<<<<NumberTok(One)>>, <<StringTok(StrA)>>>>)>>>>),
     ArrToks(<<ObjToks(<<<<StrA, <<StringTok(StrA)>>>>>>)>>)}
Docs == ScalarDocs \cup FlatDocs \cup NestedDocs \cup ExampleDocs

Mutations(d) ==
    {[d EXCEPT ![j] = t] : j \in 1..Len(d), t \in TokAlphabet}
        \cup {SubSeq(d, 1, j - 1) \o SubSeq(d, j + 1, Len(d)) : j \in 1..Len(d)}
        \cup {SubSeq(d, 1, j) : j \in 0..Len(d)}
        \cup {d \o <<t>> : t \in TokAlphabet}

TokenInputs ==
    SeqsUpTo(TokAlphabet, MaxTokLen) \cup Docs
        \cup UNION {Mutations(d) : d \in FlatDocs}
        \cup {d \o <<t>> : d \in NestedDocs \cup ExampleDocs, t \in TokAlphabet}

\* A document's text: the number 1 is written 1, a string without escapes.
TokText(t) ==
    IF t.kind = "String" THEN <<QuoteCh>> \o t.s \o <<QuoteCh>>
    ELSE IF t.kind = "Number" THEN <<48 + t.n.mant>>
    ELSE IF t.kind = "Bool" THEN (IF t.b THEN TrueWord ELSE FalseWord)
    ELSE IF t.kind = "Null" THEN NullWord
    ELSE IF t.kind = "LeftBrace" THEN <<LBraceCh>>
    ELSE IF t.kind = "RightBrace" THEN <<RBraceCh>>
    ELSE IF t.kind = "LeftBracket" THEN <<LBracketCh>>
    ELSE IF t.kind = "RightBracket" THEN <<RBracketCh>>
    ELSE IF t.kind = "Comma" THEN <<CommaCh>>
    ELSE <<ColonCh>>

Text(d) == Flatten([j \in 1..Len(d) |-> TokText(d[j])])
TextSpaced(d) == Flatten([j \in 1..Len(d) |-> TokText(d[j]) \o <<32>>])

\* " \ } { space 1 . e - n u
\* 1635 is U+0663 ARABIC-INDIC DIGIT THREE: is_numeric, not an ASCII digit.
TextAlphabet ==
    {QuoteCh, BackslashCh, RBraceCh, LBraceCh, 32, 49, 46, 101, 45, 110, LowerU, 1635}

\* \uD83D  \uDE04  A  \u41n  \  "  n  }
StrChunks ==
    {<<BackslashCh, LowerU, 68, 56, 51, 68>>,
     <<BackslashCh, LowerU, 68, 69, 48, 52>>,
     <<BackslashCh, LowerU, 48, 48, 52, 49>>,
     <<BackslashCh, LowerU, 52, 49, 110>>,
     <<BackslashCh>>, <<QuoteCh>>, <<110>>, <<RBraceCh>>}

StringInputs == {<<QuoteCh>> \o Flatten(cs) : cs \in SeqsUpTo(StrChunks, MaxStrChunks)}

DocTexts == {Text(d) : d \in Docs}

TextInputs ==
    DocTexts \cup {TextSpaced(d) : d \in FlatDocs \cup ExampleDocs}
        \cup SeqsUpTo(TextAlphabet, MaxTextLen) \cup StringInputs

(***************************************************************************)
(* The specification.                                                      *)
(***************************************************************************)
\* Lexer::new(input): nothing is tokenized and no Parser exists yet.
InitLexer ==
    /\ chars \in TextInputs
    /\ pos = 0
    /\ tokens = <<>>
    /\ lexState = "run"
    /\ utf16 = <<>>
    /\ result = <<>>
    /\ ptokens = <<>>
    /\ index = 0
    /\ pstate = "none"
    /\ value = NoValue
    /\ calls = 0

\* Parser::new(tokens) on a token vector the caller holds; no Lexer is involved.
InitParser ==
    /\ chars = <<>>
    /\ pos = 0
    /\ tokens = <<>>
    /\ lexState = "none"
    /\ utf16 = <<>>
    /\ result = <<>>
    /\ ptokens \in TokenInputs
    /\ index = 0
    /\ pstate = "ready"
    /\ value = NoValue
    /\ calls = 0

Init == InitLexer \/ InitParser

Next == LexNext \/ ParserNew \/ ParseCall

Spec == Init /\ [][Next]_vars

(***************************************************************************)
(* Reference notions the properties are stated against: the JSON grammar   *)
(* over a token range t[a..b], the Value such a range denotes, and the     *)
(* lexical structure of a text (what lies inside string literals).         *)
(***************************************************************************)
RECURSIVE WfValue(_, _, _)
RECURSIVE WfElements(_, _, _)
RECURSIVE WfMembers(_, _, _)

WfMember(t, a, b) ==
    /\ b >= a + 2
    /\ t[a].kind = "String"
    /\ t[a + 1].kind = "Colon"
    /\ WfValue(t, a + 2, b)

WfValue(t, a, b) ==
    \/ a = b /\ IsScalarTok(t[a])
    \/ /\ a < b
       /\ t[a].kind = "LeftBracket" /\ t[b].kind = "RightBracket"
       /\ b = a + 1 \/ WfElements(t, a + 1, b - 1)
    \/ /\ a < b
       /\ t[a].kind = "LeftBrace" /\ t[b].kind = "RightBrace"
       /\ b = a + 1 \/ WfMembers(t, a + 1, b - 1)

WfElements(t, a, b) ==
    /\ a <= b
    /\ \/ WfValue(t, a, b)
       \/ \E j \in (a + 1)..(b - 1) :
              t[j].kind = "Comma" /\ WfValue(t, a, j - 1) /\ WfElements(t, j + 1, b)

WfMembers(t, a, b) ==
    /\ a <= b
    /\ \/ WfMember(t, a, b)
       \/ \E j \in (a + 1)..(b - 1) :
              t[j].kind = "Comma" /\ WfMember(t, a, j - 1) /\ WfMembers(t, j + 1, b)

\* The lengths k for which the k tokens after cursor i are one well-formed value.
ValueLens(t, i) == {k \in 1..(Len(t) - i) : WfValue(t, i + 1, i + k)}

RECURSIVE Denote(_, _, _)
RECURSIVE DenElements(_, _, _)
RECURSIVE DenMembers(_, _, _)

\* The members written in t[a..b], in order, each a key and the Value written.
DenMembers(t, a, b) ==
    IF WfMember(t, a, b)
    THEN <<[key |-> t[a].s, value |-> Denote(t, a + 2, b)]>>
    ELSE LET j == CHOOSE j \in (a + 1)..(b - 1) :
                      t[j].kind = "Comma" /\ WfMember(t, a, j - 1)
                          /\ WfMembers(t, j + 1, b)
         IN  <<[key |-> t[a].s, value |-> Denote(t, a + 2, j - 1)]>>
                 \o DenMembers(t, j + 1, b)

\* The elements written in t[a..b], in order.
DenElements(t, a, b) ==
    IF WfValue(t, a, b) THEN <<Denote(t, a, b)>>
    ELSE LET j == CHOOSE j \in (a + 1)..(b - 1) :
                      t[j].kind = "Comma" /\ WfValue(t, a, j - 1)
                          /\ WfElements(t, j + 1, b)
         IN  <<Denote(t, a, j - 1)>> \o DenElements(t, j + 1, b)

KeysOf(ms) == {ms[j].key : j \in 1..Len(ms)}
LastOf(ms, key) ==
    CHOOSE j \in 1..Len(ms) :
        ms[j].key = key /\ \A l \in (j + 1)..Len(ms) : ms[l].key # key

\* The Value the well-formed range t[a..b] denotes.
Denote(t, a, b) ==
    IF a = b
    THEN (IF t[a].kind = "String" THEN StringV(t[a].s)
          ELSE IF t[a].kind = "Number" THEN NumberV(t[a].n)
          ELSE IF t[a].kind = "Bool" THEN BoolV(t[a].b)
          ELSE NullV)
    ELSE IF t[a].kind = "LeftBracket"
    THEN (IF b = a + 1 THEN ArrayV(<<>>) ELSE ArrayV(DenElements(t, a + 1, b - 1)))
    ELSE IF b = a + 1 THEN ObjectV(EmptyMap)
    ELSE LET ms == DenMembers(t, a + 1, b - 1) IN
         ObjectV([key \in KeysOf(ms) |-> ms[LastOf(ms, key)].value])

\* The lexical structure of a text from position i on: `inStr` says whether i is
\* inside a string literal; a backslash inside one escapes the character after it.
RECURSIVE BracesOutside(_, _, _)
BracesOutside(s, i, inStr) ==
    IF i > Len(s) THEN 0
    ELSE IF inStr
    THEN (IF s[i] = BackslashCh THEN BracesOutside(s, i + 2, TRUE)
          ELSE BracesOutside(s, i + 1, s[i] # QuoteCh))
    ELSE (IF s[i] = RBraceCh THEN 1 ELSE 0) + BracesOutside(s, i + 1, s[i] = QuoteCh)

RECURSIVE Unterminated(_, _, _)
Unterminated(s, i, inStr) ==
    IF i > Len(s) THEN inStr
    ELSE IF inStr
    THEN (IF s[i] = BackslashCh THEN Unterminated(s, i + 2, TRUE)
          ELSE Unterminated(s, i + 1, s[i] # QuoteCh))
    ELSE Unterminated(s, i + 1, s[i] = QuoteCh)

FourHex(s, i) == i + 3 <= Len(s) /\ \A k \in i..(i + 3) : IsAsciiHexdigit(s[k])

\* Whether some \u inside a string literal is not followed by four hex digits.
RECURSIVE ShortUnicode(_, _, _)
ShortUnicode(s, i, inStr) ==
    IF i > Len(s) THEN FALSE
    ELSE IF inStr
    THEN (IF s[i] = BackslashCh
          THEN \/ i < Len(s) /\ s[i + 1] = LowerU /\ ~FourHex(s, i + 2)
               \/ ShortUnicode(s, i + 2, TRUE)
          ELSE ShortUnicode(s, i + 1, s[i] # QuoteCh))
    ELSE ShortUnicode(s, i + 1, s[i] = QuoteCh)

CountKind(toks, kind) == Cardinality({j \in 1..Len(toks) : toks[j].kind = kind})

\* A UTF-16 buffer in which every surrogate has its partner next to it.
WellPaired(buf) ==
    \A j \in 1..Len(buf) :
        /\ (IsSurrogate(buf[j]) /\ ~IsLowSurrogate(buf[j]))
               => j < Len(buf) /\ IsLowSurrogate(buf[j + 1])
        /\ IsLowSurrogate(buf[j])
               => j > 1 /\ IsSurrogate(buf[j - 1]) /\ ~IsLowSurrogate(buf[j - 1])

\* The scalar values a well-paired buffer encodes, in order.
Scalars(buf) ==
    LET starts == SelectSeq([j \in 1..Len(buf) |-> j], LAMBDA j : ~IsLowSurrogate(buf[j]))
    IN  [k \in 1..Len(starts) |->
            LET u == buf[starts[k]] IN
            IF IsSurrogate(u)
            THEN 65536 + (u - 55296) * 1024 + (buf[starts[k] + 1] - 56320)
            ELSE u]

ParseStep == calls' = calls + 1
AtBrace == HasToken(ptokens, index) /\ ptokens[index + 1].kind = "LeftBrace"
AtBracket == HasToken(ptokens, index) /\ ptokens[index + 1].kind = "LeftBracket"
ClosedAtOnce(kind) == HasToken(ptokens, index + 1) /\ ptokens[index + 2].kind = kind

(***************************************************************************)
(* C1.  Nested structures parse correctly: for every generated well-formed *)
(* JSON text (scalars, empty and flat arrays and objects, one nested in    *)
(* another, the texts of the tests), tokenize() succeeds and the first     *)
(* parse() on its tokens returns Ok with the Value the text denotes.       *)
(***************************************************************************)
DocOf(text) == CHOOSE d \in Docs : Text(d) = text

C1_NestedStructuresParse ==
    chars \in DocTexts =>
        /\ lexState # "err"
        /\ calls = 1 => pstate = "ok" /\ value = Denote(DocOf(chars), 1, Len(DocOf(chars)))

(***************************************************************************)
(* C2.  `}` emits RightBrace: when tokenize() returns Ok, its result holds *)
(* as many RightBrace tokens as the input has `}` outside string literals. *)
(***************************************************************************)
C2_RightBraceToken ==
    lexState = "ok" => CountKind(tokens, "RightBrace") = BracesOutside(chars, 1, FALSE)

(***************************************************************************)
(* C3.  parse() consumes exactly the tokens of one value: whenever the     *)
(* tokens after the cursor begin with a well-formed value of k tokens, a   *)
(* parse() call returns Ok and leaves the cursor k further, whatever       *)
(* tokens follow.                                                          *)
(***************************************************************************)
C3_ConsumesOneValue ==
    [][ParseStep =>
           \A k \in ValueLens(ptokens, index) : pstate' = "ok" /\ index' = index + k]_vars

\* A second parse() that started past the first value and left tokens unread.
C3_Witness ==
    /\ calls = 2 /\ pstate = "ok" /\ index < Len(ptokens)
    /\ \E i \in 1..(index - 1) : WfValue(ptokens, 1, i) /\ WfValue(ptokens, i + 1, index)

(***************************************************************************)
(* C4.  parse_object on a well-formed object with members returns an       *)
(* Object whose keys are exactly the keys written, each mapped to the      *)
(* value of its last occurrence.                                           *)
(***************************************************************************)
C4_LastOccurrenceWins ==
    [][(ParseStep /\ AtBrace) =>
           \A k \in ValueLens(ptokens, index) :
               k > 2 =>
                   LET ms == DenMembers(ptokens, index + 2, index + k - 1) IN
                   /\ pstate' = "ok"
                   /\ value'.type = "Object"
                   /\ DOMAIN value'.entries = KeysOf(ms)
                   /\ \A key \in KeysOf(ms) :
                          value'.entries[key] = ms[LastOf(ms, key)].value]_vars

\* An object was parsed whose text gives one key twice, with different values.
C4_Witness ==
    /\ calls = 1 /\ pstate = "ok" /\ value.type = "Object" /\ index > 2
    /\ LET ms == DenMembers(ptokens, 2, index - 1) IN
       \E j \in 1..Len(ms) : \E l \in (j + 1)..Len(ms) :
           /\ ms[j].key = ms[l].key /\ ms[j].value # ms[l].value
           /\ value.entries[ms[l].key] = ms[l].value

(***************************************************************************)
(* C5.  A structurally malformed object fails parsing: at a LeftBrace that *)
(* is not closed at once, parse() returns an error and no Value if a key   *)
(* position holds no String, a key is not followed by Colon, a member's    *)
(* value is followed by neither Comma nor RightBrace, or the tokens run    *)
(* out; and, more generally, if no prefix of the tokens is a well-formed   *)
(* value.                                                                  *)
(***************************************************************************)
\* toks[a] is a key position: whether the member there, or a later one, is faulty.
RECURSIVE MemberFault(_, _)
MemberFault(t, a) ==
    \/ a > Len(t)
    \/ t[a].kind # "String"
    \/ a + 1 > Len(t)
    \/ t[a + 1].kind # "Colon"
    \/ a + 2 > Len(t)
    \/ \E k \in ValueLens(t, a + 1) :
           LET after == a + 2 + k IN
           \/ after > Len(t)
           \/ t[after].kind \notin {"Comma", "RightBrace"}
           \/ t[after].kind = "Comma" /\ MemberFault(t, after + 1)

C5_MalformedObjectFails ==
    [][(ParseStep /\ AtBrace /\ ~ClosedAtOnce("RightBrace")) =>
           ((MemberFault(ptokens, index + 2) \/ ValueLens(ptokens, index) = {})
               => pstate' = "err" /\ value' = NoValue)]_vars

\* parse() failed on the tokens LeftBrace String String RightBrace.
C5_Witness ==
    /\ calls = 1 /\ pstate = "err" /\ value = NoValue
    /\ Len(ptokens) = 4
    /\ ptokens[1].kind = "LeftBrace" /\ ptokens[2].kind = "String"
    /\ ptokens[3].kind = "String" /\ ptokens[4].kind = "RightBrace"

(***************************************************************************)
(* C6.  An unterminated string fails lexing: whenever the input leaves a   *)
(* string literal open at its end, tokenize() does not return Ok.          *)
(***************************************************************************)
C6_UnterminatedStringFails ==
    Unterminated(chars, 1, FALSE) => lexState # "ok"

(***************************************************************************)
(* C7.  \u needs four hexadecimal digits: whenever some \u inside a string *)
(* literal of the input is not followed by four hexadecimal digits,        *)
(* tokenize() does not return Ok.                                          *)
(***************************************************************************)
C7_UnicodeEscapeNeedsFourHex ==
    ShortUnicode(chars, 1, FALSE) => lexState # "ok"

(***************************************************************************)
(* C8.  The UTF-16 buffer is flushed before anything else is appended and  *)
(* at the closing quote: an iteration of the string loop that reads an     *)
(* unescaped character, a pass-through escape or the closing quote fails   *)
(* if the buffer is not well paired, and otherwise empties the buffer and  *)
(* extends the result by the buffer's scalar values (one per surrogate     *)
(* pair) followed by what the iteration appends; the String token carries  *)
(* exactly that result; a \u iteration leaves the result as it is.         *)
(***************************************************************************)
FlushArm ==
    /\ InString /\ pos < Len(chars)
    /\ \/ chars[pos + 1] # BackslashCh
       \/ pos + 1 < Len(chars) /\ IsPassThrough(chars[pos + 2])

Appended ==
    IF chars[pos + 1] = QuoteCh THEN <<>>
    ELSE IF chars[pos + 1] = BackslashCh THEN <<BackslashCh, chars[pos + 2]>>
    ELSE <<chars[pos + 1]>>

C8_BufferFlushedInOrder ==
    [][/\ FlushArm =>
              IF WellPaired(utf16)
              THEN /\ utf16' = <<>>
                   /\ result' = result \o Scalars(utf16) \o Appended
                   /\ IF chars[pos + 1] = QuoteCh
                      THEN lexState' = "run" /\ tokens' = Append(tokens, StringTok(result'))
                      ELSE lexState' = "string" /\ tokens' = tokens
              ELSE lexState' = "err"
       /\ (InString /\ ~FlushArm) => result' = result /\ tokens' = tokens]_vars

\* A String token was emitted whose text is n followed by the one scalar value
\* of a surrogate pair, and the buffer is empty.
C8_Witness ==
    /\ lexState = "run" /\ utf16 = <<>> /\ Len(tokens) = 1
    /\ tokens[1].kind = "String"
    /\ tokens[1].s = <<110, 128516>>

(***************************************************************************)
(* C9.  parse_array: `[` followed at once by `]` gives the empty Array;    *)
(* otherwise parse() at a `[` returns Ok exactly when the tokens after the *)
(* cursor begin with a well-formed array, and then the Array holds the     *)
(* Values of its elements in token order.                                  *)
(***************************************************************************)
C9_ArrayElementsInOrder ==
    [][(ParseStep /\ AtBracket) =>
           IF ClosedAtOnce("RightBracket")
           THEN pstate' = "ok" /\ value' = ArrayV(<<>>) /\ index' = index + 2
           ELSE /\ pstate' = "ok" <=> ValueLens(ptokens, index) # {}
                /\ pstate' = "err" => value' = NoValue
                /\ pstate' = "ok" =>
                       value' = ArrayV(DenElements(ptokens, index + 2, index' - 1))]_vars

\* An array of two different elements was parsed.
C9_Witness ==
    /\ calls = 1 /\ pstate = "ok" /\ value.type = "Array"
    /\ Len(value.items) = 2 /\ value.items[1] # value.items[2]
    /\ value.items[1] = Denote(ptokens, 2, 2)

(***************************************************************************)
(* C10.  tokenize() terminates: every step of the lexer consumes at least  *)
(* one character of the input or ends tokenize(), never reads past the     *)
(* input, and returns Ok only with the whole input consumed; and while     *)
(* tokenize() has not ended, at the start and after every step, a step of  *)
(* the lexer is possible.  The number of characters left thus decreases    *)
(* with every step until tokenize() ends.                                  *)
(***************************************************************************)
LexDone == lexState \in {"none", "ok", "err"}

CanStep == ~LexDone => ENABLED LexNext

C10_TokenizeTerminates ==
    /\ CanStep
    /\ [][/\ ~LexDone =>
                 /\ pos' > pos \/ lexState' \in {"ok", "err"}
                 /\ pos' <= Len(chars)
                 /\ lexState' = "ok" => pos' = Len(chars)
          /\ CanStep']_vars

\* tokenize() returned Ok after several tokens, the last a number.
C10_Witness ==
    /\ lexState = "ok" /\ pos = Len(chars) /\ Len(tokens) >= 2
    /\ tokens[Len(tokens)].kind = "Number"

====
